---- MODULE Spec2Model ----
(***************************************************************************)
(* rotImage: rotate an image, or every image of a directory, by an angle   *)
(* that is given (-a), taken from a reference image (-ref) or estimated    *)
(* from the image itself.  The model follows src/rotImage.cpp: main, the   *)
(* directory traversal processDirectory with its recursion, and the        *)
(* per-file functions.  Images are opaque: a file is known by whether      *)
(* cv::imread decodes it and by the angle determineRotationAngle finds in  *)
(* it.  The file system does not change during a run.                      *)
(***************************************************************************)
EXTENDS Integers, Sequences, FiniteSets, TLC

\* Bounds of the explored file system.
MaxEntries == 4       \* directory entries in the whole input tree
MaxDepth == 1         \* nesting depth of subdirectories below the input directory
MaxSide == 3          \* width and height of an image handed to rotateImage
MaxLines == 2         \* line segments HoughLinesP returns

VARIABLES
    pc,                  \* position of main: "start", "resolve", "dispatch", "traverse", "done", "crashed"
    input,               \* -i: the input directory or the input file
    argAngle,            \* -a (default 0.0)
    argReference,        \* -ref: a path, or "" when the option is not used
    recursive,           \* -r
    verbose,             \* -v
    referenceImagePath,  \* the static global of line 9
    angle,               \* main's local angle
    stack,               \* the active processDirectory calls, innermost last
    nEntries,            \* directory entries known to exist so far (bounded by MaxEntries)
    outputs,             \* the files cv::imwrite has written: {[out, src, angle]}
    refReads,            \* number of times the reference image was handed to cv::imread
    lastEst,             \* the path determineRotationAngle ran on most recently, <<>> before
    lastOp,              \* what the most recent processSingleImage call did
    lastRet,             \* the most recent processDirectory call that returned
    result,              \* the bool main returns at line 275 or 290, <<>> before
    exitStatus,          \* the process exit status, <<>> while running
    rotSrc,              \* rotateImage: the source size and the angle
    rotDst,              \* rotateImage: <<the transform and the size of dst>>, <<>> before
    lines,               \* determineRotationAngle: the segments HoughLinesP returned
    estimate             \* determineRotationAngle: <<the value returned>>, <<>> before

vars == <<pc, input, argAngle, argReference, recursive, verbose, referenceImagePath,
          angle, stack, nEntries, outputs, refReads, lastEst, lastOp, lastRet,
          result, exitStatus, rotSrc, rotDst, lines, estimate>>

\* The variables of the two functions that are checked by themselves.
pure == <<rotSrc, rotDst, lines, estimate>>

----------------------------------------------------------------------------
\* The file system the run can meet.

\* line 25: the recognized extensions
imageExtensions == {".jpg", ".jpeg", ".png", ".bmp", ".tif", ".tiff"}

File(n, e, d, a) == [name |-> n, ext |-> e, isDir |-> FALSE, decodes |-> d, est |-> a]

\* Files a directory may hold: two images with different skew, an image without
\* lines, an unreadable image, and a readable image whose extension is not listed.
Files ==
    { File("a.jpg", ".jpg", TRUE, 5),
      File("b.png", ".png", TRUE, -10),
      File("z.bmp", ".bmp", TRUE, 0),
      File("bad.tif", ".tif", FALSE, 0),
      File("c.JPG", ".JPG", TRUE, 5) }

SubDir == [name |-> "sub", ext |-> "", isDir |-> TRUE, decodes |-> FALSE, est |-> 0]

InputDir == [name |-> "in", ext |-> "", isDir |-> TRUE, decodes |-> FALSE, est |-> 0]

NoEntry == [name |-> "", ext |-> "", isDir |-> FALSE, decodes |-> FALSE, est |-> 0]

\* Reference images: one with skew, one without lines, one that does not decode.
RefFiles ==
    { [name |-> "ref.png", decodes |-> TRUE, est |-> 7],
      [name |-> "flat.png", decodes |-> TRUE, est |-> 0],
      [name |-> "missing.png", decodes |-> FALSE, est |-> 0] }

RefFile(p) == CHOOSE r \in RefFiles : r.name = p

ExplicitAngles == {0, 90, 360}

\* What a directory at nesting depth d can hold.
EntriesAt(d) == IF d < MaxDepth THEN Files \cup {SubDir} ELSE Files

\* The entries the iterator of a directory can come to stand at, given the names it
\* has already shown: the entry, and whether the listing holds more after it.  An
\* entry counts against MaxEntries when it becomes known (announced says that the
\* entry before it already told of it).
Unseen(d, seen) == {e \in EntriesAt(d) : e.name \notin seen}
Reveal(d, seen, announced) ==
    { r \in [entry : Unseen(d, seen), more : BOOLEAN] :
        /\ r.more => Unseen(d, seen \cup {r.entry.name}) # {}
        /\ nEntries + (IF announced THEN 0 ELSE 1) + (IF r.more THEN 1 ELSE 0)
              <= MaxEntries }
Known(r, announced) ==
    nEntries + (IF announced THEN 0 ELSE 1) + (IF r.more THEN 1 ELSE 0)

Path(dir, e) == Append(dir, e.name)
Dir(path) == SubSeq(path, 1, Len(path) - 1)

----------------------------------------------------------------------------
\* The functions of rotImage.cpp.

\* isImageFile taking every entry for an image.
isImageFile_Any(e) == TRUE
\* isImageFile: the extension is looked up, case-sensitively, in the fixed list.
isImageFile(e) == e.ext \in imageExtensions

\* determineRotationAngle: the mean orientation of the detected lines, in degrees;
\* 0.0 when no line is detected.  The image is opaque here, known by that angle.
determineRotationAngle(img) == img.est

\* calculateReferenceAngle: imread; on an empty image successful = false and 0.0,
\* otherwise successful = true and the estimated angle.
calculateReferenceAngle(f) ==
    IF ~f.decodes
    THEN [successful |-> FALSE, angle |-> 0]
    ELSE [successful |-> TRUE, angle |-> determineRotationAngle(f)]

\* processSingleImage without the test of line 123.
processSingleImage_NoSentinel(f, src, out, a, rotOK, encOK) ==
    LET op(rd, ro, wr, fault) ==
            [src |-> src, out |-> out, angle |-> a, readable |-> f.decodes,
             imread |-> rd, rotate |-> ro, imwrite |-> wr,
             fault |-> fault, ok |-> fault = ""]
    IN  IF ~f.decodes THEN op(TRUE, FALSE, FALSE, "decode")
        ELSE IF ~rotOK THEN op(TRUE, TRUE, FALSE, "rotate")
        ELSE IF ~encOK THEN op(TRUE, TRUE, TRUE, "encode")
        ELSE op(TRUE, TRUE, TRUE, "")

\* processSingleImage taking every full turn for no rotation.
processSingleImage_FullTurn(f, src, out, a, rotOK, encOK) ==
    LET op(rd, ro, wr, fault) ==
            [src |-> src, out |-> out, angle |-> a, readable |-> f.decodes,
             imread |-> rd, rotate |-> ro, imwrite |-> wr,
             fault |-> fault, ok |-> fault = ""]
    IN  IF a % 360 = 0 THEN op(FALSE, FALSE, FALSE, "angle")
        ELSE IF ~f.decodes THEN op(TRUE, FALSE, FALSE, "decode")
        ELSE IF ~rotOK THEN op(TRUE, TRUE, FALSE, "rotate")
        ELSE IF ~encOK THEN op(TRUE, TRUE, TRUE, "encode")
        ELSE op(TRUE, TRUE, TRUE, "")

\* processSingleImage: what the call does with file f (path src) and angle a, when
\* rotateImage yields a non-empty image iff rotOK and cv::imwrite succeeds iff encOK.
\* imread/rotate/imwrite say which of the three calls were made, fault which check
\* made the call return false.
processSingleImage(f, src, out, a, rotOK, encOK) ==
    LET op(rd, ro, wr, fault) ==
            [src |-> src, out |-> out, angle |-> a, readable |-> f.decodes,
             imread |-> rd, rotate |-> ro, imwrite |-> wr,
             fault |-> fault, ok |-> fault = ""]
    IN  IF a = 0 THEN op(FALSE, FALSE, FALSE, "angle")
        ELSE IF ~f.decodes THEN op(TRUE, FALSE, FALSE, "decode")
        ELSE IF ~rotOK THEN op(TRUE, TRUE, FALSE, "rotate")
        ELSE IF ~encOK THEN op(TRUE, TRUE, TRUE, "encode")
        ELSE op(TRUE, TRUE, TRUE, "")

NoOp == [src |-> <<>>, out |-> <<>>, angle |-> 0, readable |-> FALSE,
         imread |-> FALSE, rotate |-> FALSE, imwrite |-> FALSE,
         fault |-> "", ok |-> FALSE]

\* The output files after one processSingleImage call: a successful imwrite replaces
\* whatever was at the output path.
OutputsAfter(op) ==
    IF op.ok
    THEN {o \in outputs : o.out # op.out}
            \cup {[out |-> op.out, src |-> op.src, angle |-> op.angle]}
    ELSE outputs

\* processDirectory, line 165: the output path is the output directory joined with
\* the entry's file name; the directory the entry lies in plays no part.
outputFilePath_Mirrored(dir, e) == <<"out">> \o Tail(dir) \o <<e.name>>
outputFilePath(dir, e) == <<"out", e.name>>

\* processDirectory, lines 168-177: without a reference every image entry is handed
\* to calculateReferenceAngle, and the angle found replaces the call's angle when the
\* entry decodes.
UsesEntryAngle_Always(e) == TRUE
UsesEntryAngle(e) == referenceImagePath = ""
\* EntryAngle estimating only while the call has no angle yet.
EntryAngle_Cached(e, a) ==
    IF UsesEntryAngle(e) /\ a = 0
    THEN LET r == calculateReferenceAngle(e)
         IN  IF r.successful THEN r.angle ELSE a
    ELSE a
EntryAngle(e, a) ==
    IF UsesEntryAngle(e)
    THEN LET r == calculateReferenceAngle(e)
         IN  IF r.successful THEN r.angle ELSE a
    ELSE a

\* main, lines 259-266: with a reference path the reference angle replaces -a when
\* the reference decodes; otherwise the angle stays as it was.
ReferenceAngle(a) ==
    IF referenceImagePath # ""
    THEN LET r == calculateReferenceAngle(RefFile(referenceImagePath))
         IN  IF r.successful THEN r.angle ELSE a
    ELSE a

\* main, line 282: in single-file mode the angle is estimated from the input file
\* when main's angle is 0.0 and no reference is set.
AutoDetects == angle = 0 /\ referenceImagePath = ""

\* main returns a bool where an int is expected (lines 275, 290): true is 1, false 0.
BoolToInt(b) == IF b THEN 1 ELSE 0

\* lines 179-187: a failed image ends the call, otherwise the body goes on.
AfterImage_Continue(ok) == "recurse"
AfterImage(ok) == IF ok THEN "recurse" ELSE "return"

\* line 188: the entry is descended into
Descends(e) == recursive /\ e.isDir

\* lines 188-192: after the recursion, taken or not, the body reaches the increment.
AfterRecursion_NoIncrement == "body"
AfterRecursion == "incr"

\* line 192: iter.increment(ec).  The iterator becomes the end iterator when the
\* listing holds no further entry, and also on an error: a directory_iterator that
\* reports an error becomes equal to the end iterator (C++17 [fs.class.directory.iterator]).
IncrementEnds(f, err) == err \/ ~f.more

\* lines 193-194: with -v the warning dereferences the iterator, which after an error
\* is the end iterator: undefined behaviour.
WarnsOnEnd(err) == err /\ verbose

----------------------------------------------------------------------------
\* The run.

Top == stack[Len(stack)]
Pop == SubSeq(stack, 1, Len(stack) - 1)

\* A processDirectory call just entered (lines 159-160): ec is clear and the iterator
\* stands at the first entry r of the directory, or at the end when it is empty.
\* more says that the directory holds entries after the one the iterator stands at;
\* dropped, that a recursive call made by this call returned false.
Frame(dir, a, r, atEnd) ==
    [dir |-> dir, entry |-> r.entry, more |-> r.more, seen |-> {r.entry.name} \ {""},
     angle |-> a, ec |-> FALSE, end |-> atEnd, at |-> "body", dropped |-> FALSE]

Enter(dir, a, base) ==
    \/ /\ stack' = Append(base, Frame(dir, a, [entry |-> NoEntry, more |-> FALSE], TRUE))
       /\ UNCHANGED nEntries
    \/ \E r \in Reveal(Len(base), {}, FALSE) :
          /\ stack' = Append(base, Frame(dir, a, r, FALSE))
          /\ nEntries' = Known(r, FALSE)

NoRet == [dir |-> <<>>, ret |-> FALSE, ec |-> FALSE, unread |-> FALSE, dropped |-> FALSE]

OutputFile == <<"out.png">>

Init ==
    /\ pc = "start"
    /\ input \in {InputDir} \cup Files
    /\ argAngle \in ExplicitAngles
    /\ argReference \in {""} \cup {r.name : r \in RefFiles}
    /\ recursive \in BOOLEAN
    /\ verbose \in BOOLEAN
    /\ referenceImagePath = ""
    /\ angle = 0
    /\ stack = <<>>
    /\ nEntries = 0
    /\ outputs = {}
    /\ refReads = 0
    /\ lastEst = <<>>
    /\ lastOp = NoOp
    /\ lastRet = NoRet
    /\ result = <<>>
    /\ exitStatus = <<>>
    /\ rotSrc = <<>>
    /\ rotDst = <<>>
    /\ lines = <<>>
    /\ estimate = <<>>

\* Finish handing a recursive call's failure on to its callers.
Finish_Propagate(f, ret) ==
    /\ lastRet' = [dir |-> f.dir, ret |-> ret, ec |-> f.ec,
                   unread |-> f.more, dropped |-> f.dropped]
    /\ IF Len(stack) = 1 \/ ~ret
       THEN /\ stack' = <<>>
            /\ pc' = "done"
            /\ result' = <<ret>>
            /\ exitStatus' = <<BoolToInt(ret)>>
       ELSE /\ stack' = Pop
            /\ UNCHANGED <<pc, result, exitStatus>>

\* Finish with the angle taken by reference: the caller goes on with the angle the
\* recursive call ended with.
Finish_SharedAngle(f, ret) ==
    /\ lastRet' = [dir |-> f.dir, ret |-> ret, ec |-> f.ec,
                   unread |-> f.more, dropped |-> f.dropped]
    /\ IF Len(stack) = 1
       THEN /\ stack' = <<>>
            /\ pc' = "done"
            /\ result' = <<ret>>
            /\ exitStatus' = <<BoolToInt(ret)>>
       ELSE /\ stack' = [Pop EXCEPT ![Len(stack) - 1].dropped = @ \/ ~ret,
                                    ![Len(stack) - 1].angle = f.angle]
            /\ UNCHANGED <<pc, result, exitStatus>>

\* A call returns ret.  The outermost call returns to main, which returns the bool
\* as the exit status (line 275); a recursive call returns to line 189, where the
\* value is dropped and the caller goes on.
Finish(f, ret) ==
    /\ lastRet' = [dir |-> f.dir, ret |-> ret, ec |-> f.ec,
                   unread |-> f.more, dropped |-> f.dropped]
    /\ IF Len(stack) = 1
       THEN /\ stack' = <<>>
            /\ pc' = "done"
            /\ result' = <<ret>>
            /\ exitStatus' = <<BoolToInt(ret)>>
       ELSE /\ stack' = [Pop EXCEPT ![Len(stack) - 1].dropped = @ \/ ~ret]
            /\ UNCHANGED <<pc, result, exitStatus>>

\* main, lines 236-256: the arguments are parsed; a parse error exits with 1.
MainParse ==
    /\ pc = "start"
    /\ UNCHANGED pure
    /\ \E parsed \in BOOLEAN :
          IF parsed
          THEN /\ pc' = "resolve"
               /\ angle' = argAngle
               /\ referenceImagePath' = argReference
               /\ UNCHANGED exitStatus
          ELSE /\ pc' = "done"
               /\ exitStatus' = <<1>>
               /\ UNCHANGED <<angle, referenceImagePath>>
    /\ UNCHANGED <<input, argAngle, argReference, recursive, verbose, stack, nEntries,
                   outputs, refReads, lastEst, lastOp, lastRet, result>>

\* main, lines 258-266: the angle of the reference image.
MainReference ==
    /\ pc = "resolve"
    /\ UNCHANGED pure
    /\ pc' = "dispatch"
    /\ angle' = ReferenceAngle(angle)
    /\ IF referenceImagePath # ""
       THEN /\ refReads' = refReads + 1
            /\ lastEst' = IF RefFile(referenceImagePath).decodes
                          THEN <<referenceImagePath>> ELSE lastEst
       ELSE UNCHANGED <<refReads, lastEst>>
    /\ UNCHANGED <<input, argAngle, argReference, recursive, verbose, referenceImagePath,
                   stack, nEntries, outputs, lastOp, lastRet, result, exitStatus>>

\* main, lines 268-275: the input is a directory; the output directory is created
\* when it does not exist, and the traversal starts.
MainDirectory ==
    /\ pc = "dispatch"
    /\ UNCHANGED pure
    /\ input.isDir
    /\ \E exists \in BOOLEAN, created \in BOOLEAN :
          IF ~exists /\ ~created
          THEN /\ pc' = "done"
               /\ exitStatus' = <<1>>
               /\ UNCHANGED <<stack, nEntries>>
          ELSE /\ pc' = "traverse"
               /\ Enter(<<input.name>>, angle, <<>>)
               /\ UNCHANGED exitStatus
    /\ UNCHANGED <<input, argAngle, argReference, recursive, verbose, referenceImagePath,
                   angle, outputs, refReads, lastEst, lastOp, lastRet, result>>

\* main, lines 277-291: the input is a file.
MainSingle ==
    /\ pc = "dispatch"
    /\ UNCHANGED pure
    /\ ~input.isDir
    /\ pc' = "done"
    /\ LET src == <<input.name>>
           auto == AutoDetects
           r == calculateReferenceAngle(input)
       IN  IF auto /\ ~r.successful
           THEN /\ exitStatus' = <<1>>
                /\ UNCHANGED <<angle, lastEst, outputs, lastOp, result>>
           ELSE \E rotOK \in BOOLEAN, encOK \in BOOLEAN :
                  LET a == IF auto THEN r.angle ELSE angle
                      op == processSingleImage(input, src, OutputFile, a, rotOK, encOK)
                  IN  /\ angle' = a
                      /\ lastEst' = IF auto THEN src ELSE lastEst
                      /\ outputs' = OutputsAfter(op)
                      /\ lastOp' = op
                      /\ result' = <<op.ok>>
                      /\ exitStatus' = <<BoolToInt(op.ok)>>
    /\ UNCHANGED <<input, argAngle, argReference, recursive, verbose, referenceImagePath,
                   stack, nEntries, refReads, lastRet>>

\* processDirectory, lines 162-187: the loop body up to the recursion, on the entry
\* the iterator stands at.
ProcessEntry ==
    /\ pc = "traverse"
    /\ UNCHANGED pure
    /\ Top.at = "body"
    /\ ~Top.end
    /\ LET f == Top
           e == f.entry
           src == Path(f.dir, e)
       IN  IF isImageFile(e)
           THEN \E rotOK \in BOOLEAN, encOK \in BOOLEAN :
                  LET a == EntryAngle(e, f.angle)
                      op == processSingleImage(e, src, outputFilePath(f.dir, e), a, rotOK, encOK)
                      g == [f EXCEPT !.angle = a, !.at = AfterImage(op.ok)]
                  IN  /\ lastEst' = IF UsesEntryAngle(e) /\ e.decodes THEN src ELSE lastEst
                      /\ outputs' = OutputsAfter(op)
                      /\ lastOp' = op
                      /\ IF g.at = "return"
                         THEN Finish(g, FALSE)
                         ELSE /\ stack' = [stack EXCEPT ![Len(stack)] = g]
                              /\ UNCHANGED <<lastRet, pc, result, exitStatus>>
           ELSE /\ stack' = [stack EXCEPT ![Len(stack)].at = "recurse"]
                /\ UNCHANGED <<lastEst, outputs, lastOp, lastRet, pc, result, exitStatus>>
    /\ UNCHANGED <<input, argAngle, argReference, recursive, verbose, referenceImagePath,
                   angle, nEntries, refReads>>

\* processDirectory, lines 188-190: the recursive call on a subdirectory, with the
\* caller's current angle; the caller resumes at the increment.
Descend ==
    /\ pc = "traverse"
    /\ UNCHANGED pure
    /\ Top.at = "recurse"
    /\ Descends(Top.entry)
    /\ Enter(Path(Top.dir, Top.entry), Top.angle,
             [stack EXCEPT ![Len(stack)].at = AfterRecursion])
    /\ UNCHANGED <<pc, input, argAngle, argReference, recursive, verbose,
                   referenceImagePath, angle, outputs, refReads, lastEst, lastOp,
                   lastRet, result, exitStatus>>

\* processDirectory, line 188: nothing to descend into.
NoDescend ==
    /\ pc = "traverse"
    /\ UNCHANGED pure
    /\ Top.at = "recurse"
    /\ ~Descends(Top.entry)
    /\ stack' = [stack EXCEPT ![Len(stack)].at = AfterRecursion]
    /\ UNCHANGED <<pc, input, argAngle, argReference, recursive, verbose,
                   referenceImagePath, angle, nEntries, outputs, refReads, lastEst,
                   lastOp, lastRet, result, exitStatus>>

\* processDirectory, lines 192-196: the iterator is advanced.  After an error it is
\* the end iterator, whatever the directory still holds, and with -v line 194
\* dereferences it: the run either crashes there or goes on.
Increment ==
    /\ pc = "traverse"
    /\ UNCHANGED pure
    /\ Top.at = "incr"
    /\ \E err \in BOOLEAN, crash \in BOOLEAN :
          /\ crash => WarnsOnEnd(err)
          /\ pc' = IF crash THEN "crashed" ELSE pc
          /\ IF IncrementEnds(Top, err)
             THEN /\ stack' = [stack EXCEPT ![Len(stack)] =
                                  [Top EXCEPT !.end = TRUE, !.entry = NoEntry,
                                              !.ec = err, !.at = "body"]]
                  /\ UNCHANGED nEntries
             ELSE \E r \in Reveal(Len(stack) - 1, Top.seen, TRUE) :
                    /\ stack' = [stack EXCEPT ![Len(stack)] =
                                    [Top EXCEPT !.entry = r.entry, !.more = r.more,
                                                !.seen = @ \cup {r.entry.name},
                                                !.ec = err, !.at = "body"]]
                    /\ nEntries' = Known(r, TRUE)
    /\ UNCHANGED <<input, argAngle, argReference, recursive, verbose, referenceImagePath,
                   angle, outputs, refReads, lastEst, lastOp, lastRet, result,
                   exitStatus>>

\* processDirectory, lines 162 and 198: the iterator is at the end, the call
\* returns true.
ReturnTrue ==
    /\ pc = "traverse"
    /\ UNCHANGED pure
    /\ Top.at = "body"
    /\ Top.end
    /\ Finish(Top, TRUE)
    /\ UNCHANGED <<input, argAngle, argReference, recursive, verbose, referenceImagePath,
                   angle, nEntries, outputs, refReads, lastEst, lastOp>>

Next ==
    \/ MainParse
    \/ MainReference
    \/ MainDirectory
    \/ MainSingle
    \/ ProcessEntry
    \/ Descend
    \/ NoDescend
    \/ Increment
    \/ ReturnTrue

Spec == Init /\ [][Next]_vars

\* The program is one sequential thread that runs whenever it has a step to take.
FairSpec == Spec /\ WF_vars(Next)

----------------------------------------------------------------------------
\* Properties.

Called == lastOp.src # <<>>              \* processSingleImage has been called
BatchMode == input.isDir
HasReference == argReference # ""
RefDecodes == HasReference /\ RefFile(argReference).decodes
FileNamed(n) == CHOOSE f \in Files : f.name = n
OwnAngle(src) == determineRotationAngle(FileNamed(src[Len(src)]))
InBody == pc = "traverse" /\ Top.at = "body" /\ ~Top.end
ImageFails == InBody /\ isImageFile(Top.entry) /\ ~lastOp'.ok

\* C1: the exit status is 0 when the outermost traversal or the single-file
\* processing returned success, and 1 in every other finished run (output directory
\* not created, traversal or single-file processing failed, auto-detection failed).
C1_ExitStatus ==
    pc = "done" => exitStatus = (IF result = <<TRUE>> THEN <<0>> ELSE <<1>>)

\* C2: in batch mode without a reference and with -a different from 0.0, every
\* rotation and every written file uses the angle given with -a.
C2_ExplicitAngleUsed ==
    (BatchMode /\ ~HasReference /\ argAngle # 0) =>
        /\ lastOp.rotate => lastOp.angle = argAngle
        /\ \A o \in outputs : o.angle = argAngle

\* C3: when the reference image does not decode, no input is rotated or written.
C3_NoFallback ==
    (HasReference /\ ~RefDecodes) => (~lastOp.rotate /\ outputs = {})

\* C4: with a reference that decodes, the reference is read and estimated exactly
\* once, the estimator runs on no other file, and every processSingleImage call and
\* every written file, in single-file mode and at any depth of a traversal, has the
\* reference's angle, whatever -a says.
C4_ReferenceAngle ==
    /\ refReads <= 1
    /\ (RefDecodes /\ pc \notin {"start", "resolve"} /\ referenceImagePath # "") =>
          /\ refReads = 1
          /\ lastEst = <<argReference>>
          /\ Called => lastOp.angle = determineRotationAngle(RefFile(argReference))
          /\ \A o \in outputs : o.angle = determineRotationAngle(RefFile(argReference))

\* Two files with different skew, one of them in a subdirectory, are both written
\* with the reference's angle although -a 90 was given.
C4_Witness ==
    /\ argReference = "ref.png"
    /\ argAngle = 90
    /\ [out |-> <<"out", "a.jpg">>, src |-> <<"in", "a.jpg">>, angle |-> 7] \in outputs
    /\ [out |-> <<"out", "b.png">>, src |-> <<"in", "sub", "b.png">>, angle |-> 7]
          \in outputs

\* C5: in batch mode without a reference and with -a 0.0, every file that is rotated,
\* and every file that is written, has the angle estimated from that file in that
\* visit.
C5_OwnAngle ==
    (BatchMode /\ ~HasReference /\ argAngle = 0) =>
        /\ lastOp.rotate => (lastOp.angle = OwnAngle(lastOp.src) /\ lastEst = lastOp.src)
        /\ \A o \in outputs : o.angle = OwnAngle(o.src)

\* A file of a subdirectory is rotated by its own -10 while the angle the parent
\* call holds, from the file it processed before descending, is 5.
C5_Witness ==
    /\ BatchMode /\ ~HasReference /\ argAngle = 0
    /\ Len(stack) = 2
    /\ stack[1].angle = 5
    /\ lastOp.src = <<"in", "sub", "b.png">>
    /\ lastOp.rotate /\ lastOp.ok
    /\ lastOp.angle = -10
    /\ [out |-> <<"out", "a.jpg">>, src |-> <<"in", "a.jpg">>, angle |-> 5] \in outputs

\* C6: the step in which an image entry fails ends the call with the value false and
\* writes nothing, and while that failure is the latest processSingleImage call no
\* active call belongs to the directory of the failed entry: whatever the listing
\* holds after it is never visited.
C6_FailureEndsCall ==
    /\ [](BatchMode /\ Called /\ ~lastOp.ok =>
            \A i \in 1..Len(stack) : stack[i].dir # Dir(lastOp.src))
    /\ [][ImageFails =>
            /\ Len(stack') = Len(stack) - 1
            /\ lastRet'.dir = Top.dir /\ ~lastRet'.ret
            /\ lastOp'.src = Path(Top.dir, Top.entry)
            /\ lastOp'.fault \in {"angle", "decode", "rotate", "encode"}
            /\ outputs' = outputs]_vars

\* A call has returned false on an entry after which its listing holds more.
C6_Witness ==
    /\ lastRet.dir # <<>> /\ ~lastRet.ret /\ lastRet.unread
    /\ Called /\ ~lastOp.ok /\ Dir(lastOp.src) = lastRet.dir

C8_ZeroAngleFails ==
    /\ (Called /\ lastOp.angle = 0) =>
          (~lastOp.ok /\ ~lastOp.imread /\ ~lastOp.rotate /\ ~lastOp.imwrite)
    /\ \A o \in outputs : o.angle # 0

\* processSingleImage was called with angle 0.0 on a file that decodes.
C8_Witness == Called /\ lastOp.angle = 0 /\ lastOp.readable

\* C9: an error of iter.increment does not make the call return false, and the
\* entries the listing holds after the error are still visited.
C9_IterationErrorContinues ==
    (lastRet.dir # <<>> /\ lastRet.ec) => (lastRet.ret /\ ~lastRet.unread)

\* C10: a processSingleImage call returns early for its angle only when the angle
\* is 0.0; with any other angle, on a file that decodes, whose rotation is not empty
\* and whose imwrite succeeds, it returns true and the output file is there.
C10_OnlyZeroShortCircuits ==
    Called =>
        /\ lastOp.fault = "angle" => lastOp.angle = 0
        /\ (lastOp.angle # 0 /\ lastOp.readable /\ lastOp.fault \notin {"rotate", "encode"})
              => /\ lastOp.ok /\ lastOp.imread /\ lastOp.rotate /\ lastOp.imwrite
                 /\ [out |-> lastOp.out, src |-> lastOp.src, angle |-> lastOp.angle]
                       \in outputs

\* A file was rotated by 360 and written.
C10_Witness == Called /\ lastOp.angle = 360 /\ lastOp.ok

SingleDone == pc = "done" /\ ~BatchMode
AutoMode == ~HasReference /\ argAngle = 0
InputPath == <<input.name>>

\* C11: in single-file mode the estimator runs on the input only when no reference
\* is given and -a is 0.0, and then on every input that decodes; there an input that
\* does not decode or whose estimate is 0.0 makes the run fail (exit status 1, no
\* rotation, no output), and any other input is processed with the angle estimated
\* from it.
C11_SingleFileAutoDetect ==
    SingleDone =>
        /\ lastEst = InputPath => (AutoMode /\ input.decodes)
        /\ (AutoMode /\ input.decodes /\ Called) => lastEst = InputPath
        /\ (AutoMode /\ (~input.decodes \/ determineRotationAngle(input) = 0)) =>
              (exitStatus = <<1>> /\ result # <<TRUE>> /\ ~lastOp.rotate /\ outputs = {})
        /\ (AutoMode /\ Called) => lastOp.angle = determineRotationAngle(input)

FileName(path) == path[Len(path)]

\* C14: in a traversal every processSingleImage call, at any depth, gets the output
\* directory joined with the entry's bare file name as its output path; so inputs of
\* the same name share one output path, which holds what the latest successful call
\* wrote there.
C14_FlatOutputPath ==
    BatchMode =>
        /\ Called => lastOp.out = <<"out", FileName(lastOp.src)>>
        /\ \A o \in outputs : o.out = <<"out", FileName(o.src)>>
        /\ \A o1, o2 \in outputs : o1.out = o2.out => o1 = o2
        /\ (Called /\ lastOp.ok) =>
              [out |-> <<"out", FileName(lastOp.src)>>, src |-> lastOp.src,
               angle |-> lastOp.angle] \in outputs

\* in/a.jpg was processed, then in/sub/a.jpg: out/a.jpg is the only output and holds
\* the file of the subdirectory.
C14_Witness ==
    /\ BatchMode
    /\ Len(stack) = 2
    /\ "a.jpg" \in stack[1].seen /\ stack[1].entry.name = "sub"
    /\ lastOp.src = <<"in", "sub", "a.jpg">> /\ lastOp.ok
    /\ \A o \in outputs : o.out = <<"out", "a.jpg">> /\ o.src = <<"in", "sub", "a.jpg">>

\* C15: during a traversal the reference path is not written, no step changes the
\* angle held by a call other than the innermost one (so a caller has, when a
\* recursive call returns, the angle it had when it made the call), and the angle a
\* file is rotated by is the run's angle when a reference is set and the file's own
\* estimate otherwise: nothing a sibling, a subdirectory or the caller computed.
C15_NoSharedState ==
    /\ [][pc = "traverse" => referenceImagePath' = referenceImagePath]_vars
    /\ [][pc = "traverse" =>
            \A i \in 1..(Len(stack) - 1) :
                i <= Len(stack') => stack'[i].angle = stack[i].angle]_vars
    /\ []((BatchMode /\ lastOp.rotate) =>
            lastOp.angle = (IF referenceImagePath = ""
                            THEN OwnAngle(lastOp.src) ELSE angle))

\* The call on in/ holds 5, estimated from in/a.jpg, after the recursive call that
\* rotated in/sub/b.png by -10 has returned.
C15_Witness ==
    /\ BatchMode /\ referenceImagePath = ""
    /\ Len(stack) = 1
    /\ stack[1].at = "incr" /\ stack[1].entry.name = "sub" /\ stack[1].angle = 5
    /\ lastRet.dir = <<"in", "sub">>
    /\ lastOp.src = <<"in", "sub", "b.png">> /\ lastOp.ok /\ lastOp.angle = -10

Recognized(path) == \E f \in Files : f.name = FileName(path) /\ f.ext \in imageExtensions

\* C17: cv::imwrite is called only in a processSingleImage call whose angle is not
\* 0.0, whose imread decoded the input and whose rotateImage gave a non-empty image,
\* each step only after the one before; a call that returns true has called imwrite
\* and left its output; and in a traversal processSingleImage is called, and an
\* output written, only for entries with a recognized extension.
C17_EncodeGuarded ==
    /\ lastOp.imread => lastOp.angle # 0
    /\ lastOp.rotate => (lastOp.imread /\ lastOp.readable)
    /\ lastOp.imwrite => (lastOp.rotate /\ lastOp.fault # "rotate")
    /\ lastOp.ok =>
          /\ lastOp.imwrite /\ lastOp.fault # "encode"
          /\ [out |-> lastOp.out, src |-> lastOp.src, angle |-> lastOp.angle] \in outputs
    /\ BatchMode =>
          /\ Called => Recognized(lastOp.src)
          /\ \A o \in outputs : Recognized(o.src)

\* A traversal has passed c.JPG, whose extension is not recognized, without calling
\* processSingleImage on it, and has written a later entry of the same directory.
C17_Witness ==
    /\ pc = "traverse" /\ Len(stack) >= 1
    /\ "c.JPG" \in Top.seen /\ Top.entry.name # "c.JPG"
    /\ lastOp.src = Path(Top.dir, Top.entry)
    /\ lastOp.ok /\ lastOp.imwrite
    /\ \A o \in outputs : FileName(o.src) # "c.JPG"

Ended == pc \in {"done", "crashed"}
AtIncrement == pc = "traverse" /\ Top.at = "incr"

\* C16: every run ends; each increment leaves the iterator of the innermost call at
\* the end or at an entry the call has not stood at before, also when it reports an
\* error; and the loop body, run on an entry, ends the call or goes on to the
\* increment, so that no entry is visited twice in one call.
C16_Terminates ==
    /\ <>Ended
    /\ [][AtIncrement =>
            /\ Len(stack') = Len(stack)
            /\ stack'[Len(stack)].end \/ stack'[Len(stack)].entry.name \notin Top.seen
            /\ stack'[Len(stack)].ec => stack'[Len(stack)].end]_vars
    /\ [][InBody =>
            \/ Len(stack') = Len(stack) - 1
            \/ stack'[Len(stack)].at = "recurse"]_vars
    /\ [][(pc = "traverse" /\ Top.at = "recurse") =>
            stack'[Len(stack)].at = "incr"]_vars

\* A traversal has ended after an increment reported an error while the directory
\* held more entries.
C16_Witness ==
    /\ pc = "done" /\ BatchMode
    /\ lastRet.dir = <<"in">> /\ lastRet.ec /\ lastRet.unread
    /\ Called /\ lastOp.ok

\* ---------------------------------------------------------------------------
\* rotateImage (lines 99-109), checked by itself.
\*
\* An angle is given by its cosine and sine as the exact fractions cos/den and
\* sin/den: the quarter turns and the angles of the 3-4-5 triangle in every
\* quadrant.  Lengths are kept as integers in units of 1/den of a pixel and the
\* entries of the transform in units of 1/(2*den).

Abs(x) == IF x < 0 THEN -x ELSE x

Turn(c, s, d) == [cos |-> c, sin |-> s, den |-> d]

Turns ==
    {Turn(1, 0, 1), Turn(0, 1, 1), Turn(-1, 0, 1), Turn(0, -1, 1)}
        \cup {Turn(c, s, 5) : c \in {4, -4}, s \in {3, -3}}
        \cup {Turn(c, s, 5) : c \in {3, -3}, s \in {4, -4}}

Sources == [cols : 1..MaxSide, rows : 1..MaxSide, turn : Turns]

\* cvRound of the non-negative fraction n/d: to the nearest integer, a half to the
\* even one.  This is the conversion of bbox.size(), a Size2f, to the Size that
\* warpAffine takes (line 107).
cvRound(n, d) ==
    LET q == n \div d
        r == n % d
    IN  IF 2 * r < d THEN q
        ELSE IF 2 * r > d THEN q + 1
        ELSE IF q % 2 = 0 THEN q ELSE q + 1

\* Line 103: the bounding rectangle of the source size turned by the angle, in
\* units of 1/den.
boundingRect2f(src) ==
    LET t == src.turn
    IN  [width  |-> Abs(t.cos) * src.cols + Abs(t.sin) * src.rows,
         height |-> Abs(t.sin) * src.cols + Abs(t.cos) * src.rows]

\* Line 101: the rotation about the center (cols/2, rows/2) at scale 1, in units
\* of 1/(2*den).
getRotationMatrix2D(src) ==
    LET t == src.turn
    IN  [m00 |-> 2 * t.cos,  m01 |-> 2 * t.sin,
         m02 |-> (t.den - t.cos) * src.cols - t.sin * src.rows,
         m10 |-> -2 * t.sin, m11 |-> 2 * t.cos,
         m12 |-> t.sin * src.cols + (t.den - t.cos) * src.rows]

\* Lines 99-109: the transform handed to warpAffine and the size of dst.
rotateImage(src) ==
    LET d    == src.turn.den
        rot  == getRotationMatrix2D(src)
        bbox == boundingRect2f(src)
    IN  [rot  |-> [rot EXCEPT !.m02 = @ + bbox.width - d * src.cols,
                              !.m12 = @ + bbox.height - d * src.rows],
         bbox |-> bbox,
         cols |-> cvRound(bbox.width, d),
         rows |-> cvRound(bbox.height, d)]

\* The variables of a run of the program, and their values while a function is
\* checked by itself: no run has started.
run == <<pc, input, argAngle, argReference, recursive, verbose,
         referenceImagePath, angle, stack, nEntries, outputs, refReads,
         lastEst, lastOp, lastRet, result, exitStatus>>

Idle ==
    /\ pc = "idle"
    /\ input = InputDir
    /\ argAngle = 0
    /\ argReference = ""
    /\ recursive = FALSE
    /\ verbose = FALSE
    /\ referenceImagePath = ""
    /\ angle = 0
    /\ stack = <<>>
    /\ nEntries = 0
    /\ outputs = {}
    /\ refReads = 0
    /\ lastEst = <<>>
    /\ lastOp = NoOp
    /\ lastRet = NoRet
    /\ result = <<>>
    /\ exitStatus = <<>>

InitRotate ==
    /\ Idle
    /\ rotSrc \in Sources
    /\ rotDst = <<>>
    /\ lines = <<>>
    /\ estimate = <<>>

RotateImage ==
    /\ rotDst = <<>>
    /\ rotDst' = <<rotateImage(rotSrc)>>
    /\ UNCHANGED <<run, rotSrc, lines, estimate>>

SpecRotate == InitRotate /\ [][RotateImage]_vars

Rotated == rotDst # <<>>

\* The corners of the source rectangle.
Corners(src) == {<<x, y>> : x \in {0, src.cols}, y \in {0, src.rows}}

\* Where the transform puts a point of the source, in units of 1/(2*den).
MapX(rot, p) == rot.m00 * p[1] + rot.m01 * p[2] + rot.m02
MapY(rot, p) == rot.m10 * p[1] + rot.m11 * p[2] + rot.m12

\* C12: the canvas of dst is at least as wide and as high as the bounding box of
\* the turned source rectangle, and the transform puts every corner of the source
\* inside the canvas.
C12_NothingClipped ==
    Rotated =>
        LET dst == rotDst[1]
            d   == rotSrc.turn.den
        IN  /\ dst.cols * d >= dst.bbox.width
            /\ dst.rows * d >= dst.bbox.height
            /\ \A p \in Corners(rotSrc) :
                /\ 0 <= MapX(dst.rot, p) /\ MapX(dst.rot, p) <= 2 * d * dst.cols
                /\ 0 <= MapY(dst.rot, p) /\ MapY(dst.rot, p) <= 2 * d * dst.rows

\* ---------------------------------------------------------------------------
\* determineRotationAngle, from the detected segments on (lines 52-64), checked
\* by itself.
\*
\* A segment is the Vec4i <<x1, y1, x2, y2>> of HoughLinesP.  The segments run
\* from one point in the eight directions of the compass, one and two steps long,
\* so that atan2 is exact: angles in radians are integers in units of pi/4.

Segment(dx, dy, k) == <<2, 2, 2 + k * dx, 2 + k * dy>>

Segments ==
    {Segment(dx, dy, k) : dx \in {-1, 0, 1}, dy \in {-1, 0, 1}, k \in {1, 2}}
        \ {Segment(0, 0, k) : k \in {1, 2}}

LineLists == UNION {[1..n -> Segments] : n \in 0..MaxLines}

\* atan2(y, x) in units of pi/4, for x and y on one of the eight directions.
atan2(y, x) ==
    CASE x > 0 /\ y = 0 -> 0
      [] x > 0 /\ y > 0 -> 1
      [] x = 0 /\ y > 0 -> 2
      [] x < 0 /\ y > 0 -> 3
      [] x < 0 /\ y = 0 -> 4
      [] x < 0 /\ y < 0 -> -3
      [] x = 0 /\ y < 0 -> -2
      [] x > 0 /\ y < 0 -> -1
      [] OTHER -> 0

RECURSIVE Gcd(_, _)
Gcd(a, b) == IF b = 0 THEN a ELSE Gcd(b, a % b)

RECURSIVE LcmUpTo(_)
LcmUpTo(n) ==
    IF n = 0 THEN 1 ELSE (LcmUpTo(n - 1) * n) \div Gcd(LcmUpTo(n - 1), n)

\* The division by count (line 62) is exact in units of 1/Scale.
Scale == LcmUpTo(MaxLines)

Length(l) ==
    LET dx == Abs(l[3] - l[1])
        dy == Abs(l[4] - l[2])
    IN  IF dx > dy THEN dx ELSE dy

RECURSIVE Accumulate_Weighted(_, _, _, _)
RECURSIVE Accumulate(_, _, _, _)

\* The loop with every segment counted as many times as it is long.
Accumulate_Weighted(ls, i, sum, count) ==
    IF i > Len(ls) THEN [angle |-> sum, count |-> count]
    ELSE Accumulate_Weighted(ls, i + 1,
                    sum + Length(ls[i]) * atan2(ls[i][4] - ls[i][2], ls[i][3] - ls[i][1]),
                    count + Length(ls[i]))

\* Lines 55-59: the loop, from segment i on; the sum of the angles and the count.
Accumulate(ls, i, sum, count) ==
    IF i > Len(ls) THEN [angle |-> sum, count |-> count]
    ELSE Accumulate(ls, i + 1,
                    sum + atan2(ls[i][4] - ls[i][2], ls[i][3] - ls[i][1]),
                    count + 1)

\* Lines 52-64: angle = 0.0, count = 0, the loop, the division guarded by
\* count > 0, and the conversion angle * (180.0 / CV_PI).  The value is in units of
\* 1/Scale of a degree.
meanAngle(ls) ==
    LET acc  == Accumulate(ls, 1, 0, 0)
        mean == IF acc.count > 0 THEN (acc.angle * Scale) \div acc.count
                ELSE acc.angle * Scale
    IN  mean * 45

InitEstimate ==
    /\ Idle
    /\ rotSrc = <<>>
    /\ rotDst = <<>>
    /\ lines \in LineLists
    /\ estimate = <<>>

DetermineRotationAngle ==
    /\ estimate = <<>>
    /\ estimate' = <<meanAngle(lines)>>
    /\ UNCHANGED <<run, rotSrc, rotDst, lines>>

SpecEstimate == InitEstimate /\ [][DetermineRotationAngle]_vars

Estimated == estimate # <<>>

Sign(x) == IF x > 0 THEN 1 ELSE IF x < 0 THEN -1 ELSE 0

\* The orientation of a segment in degrees, from the direction it runs in alone.
Orientation(l) ==
    LET dir == <<Sign(l[3] - l[1]), Sign(l[4] - l[2])>>
    IN  CASE dir = <<1, 0>> -> 0
          [] dir = <<1, 1>> -> 45
          [] dir = <<0, 1>> -> 90
          [] dir = <<-1, 1>> -> 135
          [] dir = <<-1, 0>> -> 180
          [] dir = <<-1, -1>> -> -135
          [] dir = <<0, -1>> -> -90
          [] dir = <<1, -1>> -> -45

RECURSIVE SumOrientations(_)
SumOrientations(ls) ==
    IF ls = <<>> THEN 0 ELSE Orientation(Head(ls)) + SumOrientations(Tail(ls))

\* C13: the estimator returns a number for every list of segments: 0 for the empty
\* list, and for n > 0 segments the n-th part of the sum of their orientations in
\* degrees, whatever their lengths.
C13_UnweightedMean ==
    Estimated =>
        /\ estimate[1] \in Int
        /\ lines = <<>> => estimate[1] = 0
        /\ lines # <<>> => estimate[1] * Len(lines) = Scale * SumOrientations(lines)

\* The estimator has returned for two segments of different lengths and
\* orientations.
C13_Witness ==
    /\ Estimated
    /\ Len(lines) = 2
    /\ Length(lines[1]) # Length(lines[2])
    /\ Orientation(lines[1]) # Orientation(lines[2])

====
